---- MODULE Spec2Model ----
\* Model of pyzo/__init__.py: the startup check against the command server,
\* the module initialisation (resource dirs, config, themes), the config
\* functions loadConfig / saveConfig / resetConfig and MyApp.event.
EXTENDS Integers, Sequences, FiniteSets, TLC

\* ------------------------------------------------------------------ bounds
MaxProcs == 2

Procs == 1..MaxProcs
NoProc == 0

\* ------------------------------------------------- ssdf structures (zon)
\* An ssdf value is a plain value (here: a string) or a Struct, a mapping from
\* field names to ssdf values.  Both are records of one shape.
NoFields == [k \in {} |-> ""]
Plain(v) == [isStruct |-> FALSE, val |-> v, fields |-> NoFields]
Struct(f) == [isStruct |-> TRUE, val |-> "", fields |-> f]

\* Field names: two groups of the real default config, each with two fields.
TopKeys == {"settings", "shortcuts2"}
SubKeys == {"language", "view__select_previous_file"}
\* The order in which "for key in new" visits the fields of a Struct.
KeyOrder == <<"settings", "shortcuts2", "language", "view__select_previous_file">>

\* The fields of a Struct, in iteration order.
RECURSIVE KeysFrom(_, _)
KeysFrom(f, i) ==
    IF i > Len(KeyOrder) THEN <<>>
    ELSE IF KeyOrder[i] \in DOMAIN f
         THEN <<KeyOrder[i]>> \o KeysFrom(f, i + 1)
         ELSE KeysFrom(f, i + 1)
KeysOf(f) == KeysFrom(f, 1)

\* base[key] = node
SetItem(base, key, node) ==
    [k \in (DOMAIN base) \cup {key} |-> IF k = key THEN node ELSE base[k]]

\* loadConfig.replaceFields(base, new): base is the field mapping of a Struct,
\* new is the ssdf value being injected.  The result is the mapping after the
\* in-place update, and whether the loop raised.  "for key in new" on a plain
\* value iterates its characters: none for the empty string, and for any other
\* string the first new[key] raises TypeError (a str is indexed by a str).
RECURSIVE replaceFields(_, _)
RECURSIVE replaceLoop(_, _, _)
\* replaceFields without the recursion into nested Structs: base[key] = new[key].
RECURSIVE replaceLoop_Shallow(_, _, _)
replaceLoop_Shallow(base, new, keys) ==
    IF keys = <<>> THEN [cfg |-> base, err |-> FALSE]
    ELSE replaceLoop_Shallow(SetItem(base, Head(keys), new.fields[Head(keys)]),
                             new, Tail(keys))
replaceLoop(base, new, keys) ==
    IF keys = <<>> THEN [cfg |-> base, err |-> FALSE]
    ELSE LET key == Head(keys) IN
         IF key \in DOMAIN base /\ base[key].isStruct
         THEN LET r == replaceFields(base[key].fields, new.fields[key])
                  b == [base EXCEPT ![key] = Struct(r.cfg)]
              IN  IF r.err THEN [cfg |-> b, err |-> TRUE]
                  ELSE replaceLoop(b, new, Tail(keys))
         ELSE replaceLoop(SetItem(base, key, new.fields[key]), new, Tail(keys))
replaceFields(base, new) ==
    IF new.isStruct THEN replaceLoop(base, new, KeysOf(new.fields))
    ELSE IF new.val = "" THEN [cfg |-> base, err |-> FALSE]
    ELSE [cfg |-> base, err |-> TRUE]

\* A file of the file system: absent, or holding one Struct.
NoFile == [exists |-> FALSE, data |-> NoFields]
File(f) == [exists |-> TRUE, data |-> f]

\* ---------------------------------------------------------------- inputs
Platforms == {"darwin", "linux"}
\* Where the package can be installed; the second is inside a zip archive.
PyzoDirs == {"/opt/pyzo", "/opt/lib.zip/pyzo"}
ZipInPath(d) == d = "/opt/lib.zip/pyzo"
AppDataDir == "appData"
AppConfigDir == "appConfig"
ToolDir == "appData/tools"
StyleFile == "appData/styles.ssdf"
\* The states the application data directory can be found in at a launch.
AppDataStates ==
    {{}, {AppDataDir, ToolDir}, {AppDataDir, ToolDir, StyleFile}}

\* Names a QFileOpenEvent can carry, and the arguments of a launch.
FileNames == {"", "pyzo", "a.py", "b.py"}
ArgLists == {<<>>, <<"a.py", "b.py">>}
\* The events: a QFileOpenEvent with its file name, or any other event.
\* Qt delivers QFileOpenEvent on macOS only (the docstring of MyApp, lines 122-124).
OtherEvents == {[kind |-> "Other", file |-> ""]}
Events == [kind : {"FileOpen"}, file : FileNames] \cup OtherEvents

\* The default config shipped with the package (has the shortcuts2 group).
DefaultShortcuts ==
    Struct([k \in SubKeys |-> Plain("d")])
BasicDefault ==
    [k \in TopKeys |-> IF k = "shortcuts2" THEN DefaultShortcuts
                       ELSE Struct([j \in {"language"} |-> Plain("d")])]

VARIABLES
    platform,      \* sys.platform
    pyzoDir,       \* os.path.dirname(__file__)
    fs,            \* the paths that exist under the application data directory
    defaultFile,   \* resources/defaultConfig.ssdf
    siteFile,      \* resources/siteConfig.ssdf
    userFile,      \* appConfigDir/config.ssdf
    serverOwner,   \* the process whose command server holds the rendezvous point
    received,      \* the last command the running server was handed
    pc,            \* where each process is
    argv,          \* sys.argv of each process
    res,           \* res of the startup check (line 88)
    touched,       \* what each process has imported, read or written
    dirs,          \* (pyzoDir, appDataDir, appConfigDir) of each process
    saveFlag,      \* _saveConfigFile of each process
    config,        \* pyzo.config of each process
    fresh,         \* loadConfig() returned and no file changed since
    evt,           \* the last event handled, by MyApp.event or QApplication.event
    lastAccepted   \* the last file name MyApp.event accepted

vars == <<platform, pyzoDir, fs, defaultFile, siteFile, userFile, serverOwner,
          received, pc, argv, res, touched, dirs, saveFlag, config, fresh, evt,
          lastAccepted>>

env == <<platform, pyzoDir, defaultFile, siteFile>>

NoEvt == [proc |-> NoProc, kind |-> "none", file |-> "", calls |-> 0,
          passed |-> FALSE]
NoDirs == <<>>

\* ------------------------------------------------------ command server
\* commandline.is_our_server_running()
is_our_server_running(p) == serverOwner = p

\* commandline.handle_cmd_args(): the result for the arguments args, where ok
\* says whether the forward exchange with another process's server succeeds.
CmdHandled(p, args, ok) ==
    /\ args # <<>>
    /\ \/ serverOwner = p
       \/ serverOwner # NoProc /\ ok
handle_cmd_args(p, args, ok) == IF CmdHandled(p, args, ok) THEN "handled" ELSE ""
\* The command the server holds after the call.
ReceivedAfter(p, args, ok) == IF CmdHandled(p, args, ok) THEN args ELSE received

\* The rendezvous point and the server's command once process p has ended.
OwnerAfterExit(p) == IF serverOwner = p THEN NoProc ELSE serverOwner
ReceivedAfterExit(p) == IF serverOwner = p THEN <<>> ELSE received

\* ------------------------------------------------------------ loadConfig
\* config.shortcuts2.view__select_previous_file = "Alt+Tab," (line 253);
\* raises AttributeError when config has no shortcuts2 Struct.
MacShortcut(cfg) ==
    IF "shortcuts2" \in DOMAIN cfg /\ cfg["shortcuts2"].isStruct
    THEN [cfg |-> [cfg EXCEPT !["shortcuts2"] =
                     Struct(SetItem(cfg["shortcuts2"].fields,
                                    "view__select_previous_file", Plain("Alt+Tab,")))],
          err |-> FALSE]
    ELSE [cfg |-> cfg, err |-> TRUE]

\* Inject the file f, if it exists, into the result so far.
InjectFile(r, f) ==
    IF r.err \/ ~f.exists THEN r ELSE replaceFields(r.cfg, Struct(f.data))

\* loadConfig(defaultsOnly): the new pyzo.config and whether the call raised.
\* The parameter defaultsOnly is not read by the code.
loadConfig(defaultsOnly) ==
    LET r0 == replaceFields(NoFields, Struct(defaultFile.data))
        r1 == IF platform = "darwin" /\ ~r0.err THEN MacShortcut(r0.cfg) ELSE r0
        r2 == InjectFile(r1, siteFile)
    IN  InjectFile(r2, userFile)

\* ----------------------------------------------------------------- launch
\* A new process: interpreter start and lines 46-77.
Launch(p, args) ==
    /\ pc[p] = "off"
    /\ pc' = [pc EXCEPT ![p] = "cmdline"]
    /\ argv' = [argv EXCEPT ![p] = <<"pyzo">> \o args]
    /\ UNCHANGED <<env, fs, userFile, serverOwner, received, res, touched, dirs,
                   saveFlag, config, fresh, evt, lastAccepted>>

\* from pyzo.core import commandline (line 82): the module starts this
\* process's command server, which binds the rendezvous point if it is free.
ImportCommandline(p) ==
    /\ pc[p] = "cmdline"
    /\ serverOwner' = IF serverOwner = NoProc THEN p ELSE serverOwner
    /\ pc' = [pc EXCEPT ![p] = "check"]
    /\ UNCHANGED <<env, fs, userFile, received, argv, res, touched, dirs,
                   saveFlag, config, fresh, evt, lastAccepted>>

\* The startup check without the sys.exit() of line 91.
StartupCheck_NoExit(p) ==
    /\ pc[p] = "check"
    /\ IF is_our_server_running(p)
       THEN UNCHANGED <<res, received>>
       ELSE \E ok \in BOOLEAN :
            /\ res' = [res EXCEPT ![p] = handle_cmd_args(p, Tail(argv[p]), ok)]
            /\ received' = ReceivedAfter(p, Tail(argv[p]), ok)
    /\ pc' = [pc EXCEPT ![p] = "qt"]
    /\ UNCHANGED <<env, fs, userFile, serverOwner, argv, touched, dirs,
                   saveFlag, config, fresh, evt, lastAccepted>>

\* The startup check placed after the Qt import of line 98.
StartupCheck_AfterQt(p) ==
    /\ pc[p] = "check"
    /\ touched' = [touched EXCEPT ![p] = @ \cup {"qt"}]
    /\ IF is_our_server_running(p)
       THEN /\ pc' = [pc EXCEPT ![p] = "qt"]
            /\ UNCHANGED <<res, received>>
       ELSE \E ok \in BOOLEAN :
            LET r == handle_cmd_args(p, Tail(argv[p]), ok) IN
            /\ res' = [res EXCEPT ![p] = r]
            /\ received' = ReceivedAfter(p, Tail(argv[p]), ok)
            /\ pc' = [pc EXCEPT ![p] = IF r # "" THEN "forwarded" ELSE "qt"]
    /\ UNCHANGED <<env, fs, userFile, serverOwner, argv, dirs,
                   saveFlag, config, fresh, evt, lastAccepted>>

\* Lines 84-94.
StartupCheck(p) ==
    /\ pc[p] = "check"
    /\ IF is_our_server_running(p)
       THEN /\ pc' = [pc EXCEPT ![p] = "qt"]
            /\ UNCHANGED <<res, received>>
       ELSE \E ok \in BOOLEAN :
            LET args == Tail(argv[p])
                r == handle_cmd_args(p, args, ok)
            IN  /\ res' = [res EXCEPT ![p] = r]
                /\ received' = ReceivedAfter(p, args, ok)
                /\ pc' = [pc EXCEPT ![p] = IF r # "" THEN "forwarded" ELSE "qt"]
    /\ UNCHANGED <<env, fs, userFile, serverOwner, argv, touched, dirs,
                   saveFlag, config, fresh, evt, lastAccepted>>

\* Lines 97-155: Qt is imported, MyApp is defined, the excepthook installed.
ImportQt(p) ==
    /\ pc[p] = "qt"
    /\ touched' = [touched EXCEPT ![p] = @ \cup {"qt"}]
    /\ pc' = [pc EXCEPT ![p] = "dirs"]
    /\ UNCHANGED <<env, fs, userFile, serverOwner, received, argv, res, dirs,
                   saveFlag, config, fresh, evt, lastAccepted>>

\* pyzoDir, appDataDir, appConfigDir = getResourceDirs() (line 342).
\* A RuntimeError at import ends the process.
getResourceDirs(p) ==
    /\ pc[p] = "dirs"
    /\ IF ZipInPath(pyzoDir)
       THEN /\ pc' = [pc EXCEPT ![p] = "crashed"]
            /\ serverOwner' = OwnerAfterExit(p)
            /\ received' = ReceivedAfterExit(p)
            /\ UNCHANGED <<fs, dirs, touched>>
       ELSE /\ fs' = fs \cup {AppDataDir, ToolDir}
            /\ dirs' = [dirs EXCEPT ![p] = <<pyzoDir, AppDataDir, AppConfigDir>>]
            /\ touched' = [touched EXCEPT ![p] = @ \cup {"appdata"}]
            /\ pc' = [pc EXCEPT ![p] = "config"]
            /\ UNCHANGED <<serverOwner, received>>
    /\ UNCHANGED <<env, userFile, argv, res, saveFlag, config, fresh, evt,
                   lastAccepted>>

\* The effect of a loadConfig() call of process p on its pyzo.config.
LoadInto(p, r) ==
    /\ config' = [config EXCEPT ![p] = r.cfg]
    /\ fresh' = [fresh EXCEPT ![p] = ~r.err]
    /\ touched' = [touched EXCEPT ![p] = @ \cup {"config"}]

\* Lines 345-349: _saveConfigFile = True; config = ssdf.new(); loadConfig().
InitConfig(p) ==
    /\ pc[p] = "config"
    /\ saveFlag' = [saveFlag EXCEPT ![p] = "true"]
    /\ LET r == loadConfig(FALSE) IN
       /\ LoadInto(p, r)
       /\ pc' = [pc EXCEPT ![p] = IF r.err THEN "crashed" ELSE "themes"]
       /\ serverOwner' = IF r.err THEN OwnerAfterExit(p) ELSE serverOwner
       /\ received' = IF r.err THEN ReceivedAfterExit(p) ELSE received
    /\ UNCHANGED <<env, fs, userFile, argv, res, dirs, evt, lastAccepted>>

\* Lines 358-361: themes = {}; loadThemes() reads the theme directories.
loadThemes(p) ==
    /\ pc[p] = "themes"
    /\ touched' = [touched EXCEPT ![p] = @ \cup {"appdata"}]
    /\ pc' = [pc EXCEPT ![p] = "loaded"]
    /\ UNCHANGED <<env, fs, userFile, serverOwner, received, argv, res, dirs,
                   saveFlag, config, fresh, evt, lastAccepted>>

\* start(): the application and the main window are created, the main loop runs.
start(p) ==
    /\ pc[p] = "loaded"
    /\ pc' = [pc EXCEPT ![p] = "running"]
    /\ UNCHANGED <<env, fs, userFile, serverOwner, received, argv, res, touched,
                   dirs, saveFlag, config, fresh, evt, lastAccepted>>

\* ------------------------------------------------------------- main loop
Accepted(kind, fname) == kind = "FileOpen" /\ fname # "" /\ fname # "pyzo"

\* MyApp.event without line 130: the file name is appended to the old arguments.
MyApp_event_Append(p, kind, fname) ==
    /\ pc[p] = "running"
    /\ platform = "darwin"
    /\ IF kind = "FileOpen" /\ fname # "" /\ fname # "pyzo"
       THEN \E ok \in BOOLEAN :
            LET args == Tail(argv[p]) \o <<fname>> IN
            /\ argv' = [argv EXCEPT ![p] = @ \o <<fname>>]
            /\ received' = ReceivedAfter(p, args, ok)
            /\ lastAccepted' = [lastAccepted EXCEPT ![p] = fname]
            /\ pc' = [pc EXCEPT ![p] = IF is_our_server_running(p) THEN "running"
                                       ELSE "eventExit"]
            /\ evt' = [proc |-> p, kind |-> kind, file |-> fname, calls |-> 1,
                       passed |-> is_our_server_running(p)]
       ELSE /\ evt' = [proc |-> p, kind |-> kind, file |-> fname, calls |-> 0,
                       passed |-> TRUE]
            /\ UNCHANGED <<argv, received, lastAccepted, pc>>
    /\ UNCHANGED <<env, fs, userFile, serverOwner, res, touched, dirs, saveFlag,
                   config, fresh>>

\* MyApp.event(self, event) (lines 126-136); MyApp is this class on darwin.
MyApp_event(p, kind, fname) ==
    /\ pc[p] = "running"
    /\ platform = "darwin"
    /\ IF Accepted(kind, fname)
       THEN \E ok \in BOOLEAN :
            LET args == <<fname>> IN
            /\ argv' = [argv EXCEPT ![p] = <<Head(@)>> \o args]
            /\ received' = ReceivedAfter(p, args, ok)
            /\ lastAccepted' = [lastAccepted EXCEPT ![p] = fname]
            /\ pc' = [pc EXCEPT ![p] = IF is_our_server_running(p) THEN "running"
                                       ELSE "eventExit"]
            /\ evt' = [proc |-> p, kind |-> kind, file |-> fname, calls |-> 1,
                       passed |-> is_our_server_running(p)]
       ELSE /\ evt' = [proc |-> p, kind |-> kind, file |-> fname, calls |-> 0,
                       passed |-> TRUE]
            /\ UNCHANGED <<argv, received, lastAccepted, pc>>
    /\ UNCHANGED <<env, fs, userFile, serverOwner, res, touched, dirs, saveFlag,
                   config, fresh>>

\* MyApp = QtWidgets.QApplication (lines 139-140): off darwin every event goes
\* to QApplication.event.
QApplication_event(p, kind, fname) ==
    /\ pc[p] = "running"
    /\ platform # "darwin"
    /\ evt' = [proc |-> p, kind |-> kind, file |-> fname,
                       calls |-> 0, passed |-> TRUE]
    /\ UNCHANGED <<env, fs, userFile, serverOwner, received, pc, argv, res,
                   touched, dirs, saveFlag, config, fresh, lastAccepted>>

\* A later loadConfig() call; an exception goes to the excepthook and the
\* process goes on with the config as far as it was filled.
loadConfigCall(p, defaultsOnly) ==
    /\ pc[p] = "running"
    /\ LoadInto(p, loadConfig(defaultsOnly))
    /\ UNCHANGED <<env, fs, userFile, serverOwner, received, pc, argv, res, dirs,
                   saveFlag, evt, lastAccepted>>

NoneFresh == [q \in Procs |-> FALSE]

\* saveConfig() without the test of _saveConfigFile (line 292).
saveConfig_Always(p) ==
    /\ pc[p] = "running"
    /\ userFile' = File(config[p])
    /\ fresh' = [q \in Procs |-> FALSE]
    /\ touched' = [touched EXCEPT ![p] = @ \cup {"config"}]
    /\ UNCHANGED <<env, fs, serverOwner, received, pc, argv, res, dirs, saveFlag,
                   config, evt, lastAccepted>>

\* saveConfig() (lines 278-293).
saveConfig(p) ==
    /\ pc[p] = "running"
    /\ IF saveFlag[p] = "true"
       THEN /\ userFile' = File(config[p])
            /\ fresh' = NoneFresh
            /\ touched' = [touched EXCEPT ![p] = @ \cup {"config"}]
       ELSE UNCHANGED <<userFile, fresh, touched>>
    /\ UNCHANGED <<env, fs, serverOwner, received, pc, argv, res, dirs, saveFlag,
                   config, evt, lastAccepted>>

\* resetConfig(preserveState) (lines 189-199); os.remove raises when the file
\* is missing and the function is left before _saveConfigFile is assigned.
resetConfig(p, preserveState) ==
    /\ pc[p] = "running"
    /\ touched' = [touched EXCEPT ![p] = @ \cup {"config"}]
    /\ IF userFile.exists
       THEN /\ userFile' = NoFile
            /\ saveFlag' = [saveFlag EXCEPT ![p] = "false"]
            /\ fresh' = NoneFresh
       ELSE UNCHANGED <<userFile, saveFlag, fresh>>
    /\ UNCHANGED <<env, fs, serverOwner, received, pc, argv, res, dirs, config,
                   evt, lastAccepted>>

\* The main loop ends and the process exits; its server goes with it.
Quit(p) ==
    /\ pc[p] = "running"
    /\ pc' = [pc EXCEPT ![p] = "quit"]
    /\ serverOwner' = OwnerAfterExit(p)
    /\ received' = ReceivedAfterExit(p)
    /\ UNCHANGED <<env, fs, userFile, argv, res, touched, dirs, saveFlag, config,
                   fresh, evt, lastAccepted>>

\* ---------------------------------------------------------- specifications
InitProcs ==
    /\ serverOwner = NoProc
    /\ received = <<>>
    /\ pc = [p \in Procs |-> "off"]
    /\ argv = [p \in Procs |-> <<>>]
    /\ res = [p \in Procs |-> "unset"]
    /\ touched = [p \in Procs |-> {}]
    /\ dirs = [p \in Procs |-> NoDirs]
    /\ saveFlag = [p \in Procs |-> "unset"]
    /\ config = [p \in Procs |-> NoFields]
    /\ fresh = NoneFresh
    /\ evt = NoEvt
    /\ lastAccepted = [p \in Procs |-> "none"]

Init ==
    /\ platform \in Platforms
    /\ pyzoDir \in PyzoDirs
    /\ fs \in AppDataStates
    /\ defaultFile = File(BasicDefault)
    /\ siteFile = NoFile
    /\ userFile = NoFile
    /\ InitProcs

Next ==
    \/ \E p \in Procs, args \in ArgLists : Launch(p, args)
    \/ \E p \in Procs : ImportCommandline(p)
    \/ \E p \in Procs : StartupCheck(p)
    \/ \E p \in Procs : ImportQt(p)
    \/ \E p \in Procs : getResourceDirs(p)
    \/ \E p \in Procs : InitConfig(p)
    \/ \E p \in Procs : loadThemes(p)
    \/ \E p \in Procs : start(p)
    \/ \E p \in Procs, e \in Events : MyApp_event(p, e.kind, e.file)
    \/ \E p \in Procs, e \in OtherEvents : QApplication_event(p, e.kind, e.file)
    \/ \E p \in Procs : Quit(p)

Spec == Init /\ [][Next]_vars

\* The config functions in one process, over the structures the three config
\* files can hold.  The process is the first instance, launched without
\* arguments, and has come as far as line 344.
Nodes(v) ==
    {Plain(v), Plain("")}
      \cup {Struct(f) : f \in UNION {[S -> {Plain(v)}] : S \in SUBSET SubKeys}}
Structs(keys, v) == UNION {[S -> Nodes(v)] : S \in SUBSET keys}
DefaultConfigs ==
    {SetItem(f, "shortcuts2", DefaultShortcuts) : f \in Structs({"settings"}, "d")}
SiteFiles == {NoFile} \cup {File(f) : f \in Structs({"settings"}, "s")}
UserFiles == {NoFile} \cup {File(f) : f \in Structs(TopKeys, "u")}

InitConfigFiles ==
    /\ platform \in Platforms
    /\ pyzoDir = "/opt/pyzo"
    /\ fs = {AppDataDir, ToolDir}
    /\ defaultFile \in {File(f) : f \in DefaultConfigs}
    /\ siteFile \in SiteFiles
    /\ userFile \in UserFiles
    /\ serverOwner = 1
    /\ received = <<>>
    /\ pc = [p \in Procs |-> IF p = 1 THEN "config" ELSE "off"]
    /\ argv = [p \in Procs |-> IF p = 1 THEN <<"pyzo">> ELSE <<>>]
    /\ res = [p \in Procs |-> "unset"]
    /\ touched = [p \in Procs |-> IF p = 1 THEN {"qt", "appdata"} ELSE {}]
    /\ dirs = [p \in Procs |->
                 IF p = 1 THEN <<pyzoDir, AppDataDir, AppConfigDir>> ELSE NoDirs]
    /\ saveFlag = [p \in Procs |-> "unset"]
    /\ config = [p \in Procs |-> NoFields]
    /\ fresh = NoneFresh
    /\ evt = NoEvt
    /\ lastAccepted = [p \in Procs |-> "none"]

NextConfig ==
    \/ \E p \in Procs : InitConfig(p)
    \/ \E p \in Procs : loadThemes(p)
    \/ \E p \in Procs : start(p)
    \/ \E p \in Procs, defaultsOnly \in BOOLEAN : loadConfigCall(p, defaultsOnly)
    \/ \E p \in Procs : saveConfig(p)
    \/ \E p \in Procs, preserveState \in BOOLEAN : resetConfig(p, preserveState)
    \/ \E p \in Procs : Quit(p)

SpecConfig == InitConfigFiles /\ [][NextConfig]_vars

\* ================================================================= claims
\* A process that is alive and past the startup check of lines 84-94.
Past(p) == pc[p] \in {"qt", "dirs", "config", "themes", "loaded", "running"}

C2_ForwardThenExit ==
    \A p \in Procs :
        res[p] \notin {"unset", ""} =>
            /\ pc[p] = "forwarded"
            /\ touched[p] = {}
            /\ dirs[p] = NoDirs
            /\ saveFlag[p] = "unset"
            /\ config[p] = NoFields

\* A process has forwarded its arguments and exited while the instance it
\* forwarded to is in its main loop and holds the forwarded arguments.
C2_Witness ==
    \E p, q \in Procs :
        /\ pc[p] = "forwarded"
        /\ pc[q] = "running" /\ is_our_server_running(q)
        /\ received = Tail(argv[p])

\* C5 as stated: when getResourceDirs() has returned, it returned (pyzoDir,
\* appDataDir, appConfigDir) and the appDataDir has a "tools" directory and a
\* style file; a package directory with ".zip" in it yields no directories.
C5_ToolsAndStyleFile ==
    \A p \in Procs :
        /\ dirs[p] # NoDirs =>
              /\ dirs[p] = <<pyzoDir, AppDataDir, AppConfigDir>>
              /\ ToolDir \in fs
              /\ StyleFile \in fs
        /\ ZipInPath(pyzoDir) => dirs[p] = NoDirs

\* What a step that handles an event does, and that only such a step changes
\* sys.argv in the main loop.
C6_EventStep ==
    /\ evt' # evt =>
         LET p == evt'.proc IN
         IF Accepted(evt'.kind, evt'.file)
         THEN /\ argv'[p] = <<Head(argv[p]), evt'.file>>
              /\ evt'.calls = 1
              /\ pc'[p] = "eventExit" <=> ~is_our_server_running(p)
              /\ is_our_server_running(p) =>
                    evt'.passed /\ pc'[p] = "running" /\ received' = <<evt'.file>>
         ELSE /\ argv'[p] = argv[p]
              /\ evt'.calls = 0
              /\ evt'.passed
              /\ pc'[p] = pc[p]
              /\ received' = received
    /\ \A p \in Procs :
         pc[p] = "running" /\ argv'[p] # argv[p] => evt' # evt /\ evt'.proc = p
C6_LastAccepted ==
    \A p \in Procs : lastAccepted[p] # "none" => Tail(argv[p]) = <<lastAccepted[p]>>

\* C6: an accepted file-open event sets sys.argv to [argv[0], file name], calls
\* handle_cmd_args() once, ends the process exactly when its own command server
\* is not running and is otherwise passed on to QApplication.event; any other
\* event leaves sys.argv, the command server and the process alone; sys.argv[1:]
\* always holds only the last accepted file name.
C6_FileOpenEvents == [][C6_EventStep]_vars /\ []C6_LastAccepted

\* One instance has ended on a file-open event because it was not the server,
\* and the server, launched with two arguments, has accepted a file-open event.
C6_Witness ==
    \E p, q \in Procs :
        /\ pc[p] = "eventExit" /\ lastAccepted[p] # "none"
        /\ pc[q] = "running" /\ is_our_server_running(q)
        /\ lastAccepted[q] = "b.py" /\ argv[q] = <<"pyzo", "b.py">>

\* Field paths, at either nesting depth.
Paths == {<<k>> : k \in TopKeys} \cup {<<k, j>> : k \in TopKeys, j \in SubKeys}
\* Whether the Struct with fields f defines the path, and the value there.
Defines(f, path) ==
    /\ path[1] \in DOMAIN f
    /\ Len(path) = 2 => f[path[1]].isStruct /\ path[2] \in DOMAIN f[path[1]].fields
NodeAt(f, path) == IF Len(path) = 1 THEN f[path[1]] ELSE f[path[1]].fields[path[2]]
FileDefines(file, path) == file.exists /\ Defines(file.data, path)
\* Two values agree: both Structs, or the same plain value.
SameValue(a, b) == a.isStruct = b.isStruct /\ (~a.isStruct => a.val = b.val)

\* The value the layering gives a path, with dflt the value of the bottom layer.
LayeredValue(path, dflt) ==
    IF FileDefines(userFile, path) THEN NodeAt(userFile.data, path)
    ELSE IF FileDefines(siteFile, path) THEN NodeAt(siteFile.data, path)
    ELSE dflt
SomeLayerDefines(path) ==
    \/ FileDefines(userFile, path)
    \/ FileDefines(siteFile, path)
    \/ FileDefines(defaultFile, path)

\* C3 as stated: after loadConfig() every path some layer defines is in
\* pyzo.config with the value of the user file if that defines the path, else
\* of the site file if that defines it, else of the default config.
C3_Layered ==
    \A p \in Procs : fresh[p] =>
        \A path \in Paths : SomeLayerDefines(path) =>
            /\ Defines(config[p], path)
            /\ SameValue(NodeAt(config[p], path),
                         LayeredValue(path, NodeAt(defaultFile.data, path)))

\* A layer gives a plain value for field k; the layers below the site file, or
\* below the user file, have made field k a Struct; the two together.
GivesPlain(file, k) == FileDefines(file, <<k>>) /\ ~file.data[k].isStruct
StructBelowSite(k) == FileDefines(defaultFile, <<k>>) /\ defaultFile.data[k].isStruct
StructBelowUser(k) ==
    IF FileDefines(siteFile, <<k>>) /\ ~GivesPlain(siteFile, k) THEN TRUE
    ELSE StructBelowSite(k)
Clash(k) ==
    \/ GivesPlain(siteFile, k) /\ StructBelowSite(k)
    \/ GivesPlain(userFile, k) /\ StructBelowUser(k)
\* The plain values that clash with a Struct below them.
ClashValues(k) ==
    {file.data[k].val : file \in
        {f \in {siteFile} : GivesPlain(f, k) /\ StructBelowSite(k)}
          \cup {f \in {userFile} : GivesPlain(f, k) /\ StructBelowUser(k)}}
\* The bottom layer: the default config, and on darwin "Alt+Tab," for
\* shortcuts2.view__select_previous_file (line 253).
BottomValue(path) ==
    IF platform = "darwin" /\ path = <<"shortcuts2", "view__select_previous_file">>
    THEN Plain("Alt+Tab,")
    ELSE NodeAt(defaultFile.data, path)

\* C3 amended: after loadConfig() has returned, every path some layer defines
\* and whose top field has no plain value on top of a Struct is in pyzo.config
\* with the value of the highest layer defining it, the bottom layer being the
\* default config with the darwin shortcut; where a plain value sits on top of
\* a Struct, loadConfig() returns only if that value is empty, and pyzo.config
\* keeps the Struct.
C3_LayeredUnlessClash ==
    \A p \in Procs : fresh[p] =>
        /\ \A path \in Paths : SomeLayerDefines(path) /\ ~Clash(path[1]) =>
              /\ Defines(config[p], path)
              /\ SameValue(NodeAt(config[p], path), LayeredValue(path, BottomValue(path)))
        /\ \A k \in TopKeys : Clash(k) =>
              /\ ClashValues(k) = {""}
              /\ Defines(config[p], <<k>>) /\ config[p][k].isStruct

\* loadConfig() has merged three layers into one Struct: settings.language from
\* the user file, settings.view__select_previous_file from the site file,
\* shortcuts2.language from the default config.
C3_Witness ==
    /\ fresh[1]
    /\ Defines(config[1], <<"settings", "language">>)
    /\ config[1]["settings"].fields["language"] = Plain("u")
    /\ Defines(config[1], <<"settings", "view__select_previous_file">>)
    /\ config[1]["settings"].fields["view__select_previous_file"] = Plain("s")
    /\ FileDefines(defaultFile, <<"settings", "language">>)
    /\ Defines(config[1], <<"shortcuts2", "language">>)
    /\ config[1]["shortcuts2"].fields["language"] = Plain("d")

\* The user config file is absent while _saveConfigFile is false.
C4_NoFileAfterReset ==
    \A p \in Procs : saveFlag[p] = "false" => ~userFile.exists
\* _saveConfigFile stays false, and becomes false only with the file deleted.
C4_ResetStep ==
    \A p \in Procs :
        /\ saveFlag[p] = "false" => saveFlag'[p] = "false"
        /\ saveFlag[p] # "false" /\ saveFlag'[p] = "false" =>
              userFile.exists /\ ~userFile'.exists

\* C4: once resetConfig() has returned (_saveConfigFile is false) the user
\* config file does not exist, whatever saveConfig() and loadConfig() calls
\* follow; resetConfig() sets the flag only together with deleting the file;
\* and _saveConfigFile, once false, stays false.
C4_ResetPreventsSaving == []C4_NoFileAfterReset /\ [][C4_ResetStep]_vars

\* resetConfig() has returned and loadConfig() was called after it, in a
\* process that is still running and whose config is not empty.
C4_Witness ==
    /\ saveFlag[1] = "false"
    /\ fresh[1]
    /\ pc[1] = "running"
    /\ config[1] # NoFields

====
